---- MODULE Spec2Model ----
(***************************************************************************)
(* Model of class UniqueSeq of uniq_seq.cpp: the quadratic-residue         *)
(* permutation generator (constructor, permuteQPR, next) and the           *)
(* chooseSmart / check pair that drives it.                                *)
(*                                                                         *)
(* Word width.  The fields of UniqueSeq are `unsigned int` (32 bits) and   *)
(* the constructor compares against 4294967291, the largest 32-bit prime.  *)
(* TLC's integers cannot hold those values, so the machine word is scaled  *)
(* to 11 bits.  11 is the one small width that keeps the arithmetic facts  *)
(* the code depends on:                                                    *)
(*     32 bits                         11 bits                             *)
(*     2^32           = 4294967296     2^11        = 2048                  *)
(*     largest prime  = 4294967291     largest prime = 2039                *)
(*     4294967291 % 4 = 3              2039 % 4    = 3                     *)
(*     ranges above the cap exist      ranges above the cap exist          *)
(*     first prime p>2^32, p%4=3 is    first prime p>2^11, p%4=3 is        *)
(*       2^32+15                         2^11+15                           *)
(* size_t (64 bits) is scaled to twice the word, 22 bits.                  *)
(***************************************************************************)
EXTENDS Integers, Sequences, FiniteSets, TLC

\* ---- program constants (scaled, see above) ------------------------------
UIntModulus  == 2048      \* 2^32: unsigned int arithmetic is modulo this
LargestPrime == 2039      \* 4294967291u in the constructor
DefaultSeed  == 1         \* seed=0x1
SizeModulus  == UIntModulus * UIntModulus   \* size_t arithmetic

\* ---- bounds of the model -------------------------------------------------
MaxRange     == 12        \* small ranges 1..MaxRange
CapMargin    == 2         \* ranges LargestPrime-CapMargin..LargestPrime+CapMargin
MaxSeed      == 3         \* seeds 0..MaxSeed and the MaxSeed+1 largest words
MaxPairRange == 4         \* ranges of the two-generator specification
MaxRaceRange == 3         \* ranges of the two-thread specification
MaxExtra     == 2         \* arguments >= prime handed to permuteQPR

Max2(a, b) == IF a >= b THEN a ELSE b
Min2(a, b) == IF a <= b THEN a ELSE b

\* number of returned values kept per generator (the IntVector of chooseSmart)
MaxRecord == Max2(3 * (MaxPairRange + 1), MaxRange + 5)

Gens    == {1, 2}         \* UniqueSeq instances
Threads == {1, 2}         \* execution contexts calling next()
NoValue == -1             \* `unsigned int res;` before its first assignment

Ranges == (1 .. MaxRange)
          \cup ((LargestPrime - CapMargin) .. (LargestPrime + CapMargin))
          \cup {UIntModulus - 1}
Seeds  == (0 .. MaxSeed) \cup ((UIntModulus - 1 - MaxSeed) .. (UIntModulus - 1))

VARIABLES
  m_index,               \* [Gens -> word]  UniqueSeq::m_index
  m_intermediateOffset,  \* [Gens -> word]  UniqueSeq::m_intermediateOffset
  m_prime,               \* [Gens -> word]  UniqueSeq::m_prime
  m_range,               \* [Gens -> word]  UniqueSeq::m_range
  seed,                  \* [Gens -> word]  the constructor's seed argument
  obj,                   \* [Threads -> Gens] the instance a context calls next() on
  pc,                    \* [Threads -> {"off","idle","loop","store"}]
  res,                   \* [Threads -> word or NoValue]  local `res` of next()
  idx,                   \* [Threads -> word] the m_index value res was computed from
  outs,                  \* [Gens -> Seq(word)] values returned so far, in order
  x,                     \* argument of the permuteQPR probe
  img                    \* images permuteQPR produced for the arguments < x

vars == <<m_index, m_intermediateOffset, m_prime, m_range, seed, obj, pc, res,
          idx, outs, x, img>>

\* ---- next_prime.cpp (not in src/): smallest prime strictly greater than n
IsPrime(n) == n >= 2 /\ \A d \in 2 .. (n - 1) : d * d > n \/ n % d # 0

RECURSIVE FirstPrimeFrom(_)
FirstPrimeFrom(c) == IF IsPrime(c) THEN c ELSE FirstPrimeFrom(c + 1)

next_prime(n) == FirstPrimeFrom(n + 1)

\* ---- UniqueSeq::get_next_suitable_prime ---------------------------------
RECURSIVE SuitableLoop(_)
SuitableLoop(prime) ==
  LET q == next_prime((prime + 1) % SizeModulus)
  IN  IF q % 4 # 3 THEN SuitableLoop(q) ELSE q

get_next_suitable_prime(n) == SuitableLoop((n + SizeModulus - 1) % SizeModulus)

\* permuteQPR without the fold of the upper half: return residue;
permuteQPRNoFold(p, v) == IF v >= p THEN v ELSE (v * v) % p

\* ---- UniqueSeq::permuteQPR, with m_prime passed as p --------------------
permuteQPR(p, v) ==
  IF v >= p
    THEN v
    ELSE LET residue == (v * v) % p
         IN  IF v <= p \div 2 THEN residue ELSE p - residue

\* ---- UniqueSeq::UniqueSeq -------------------------------------------------
\* m_prime: the size_t result is narrowed to unsigned int by the assignment
CtorPrime(range) ==
  IF range > LargestPrime
    THEN LargestPrime
    ELSE get_next_suitable_prime(range) % UIntModulus

CtorIndex(range, s) ==
  LET p == CtorPrime(range)
  IN  permuteQPR(p, (permuteQPR(p, s) + 2 * p + 2 * UIntModulus - range) % UIntModulus)

CtorOffset(range) == (CtorPrime(range) + UIntModulus - range) % UIntModulus

\* the fields of all instances after construction with ranges rg and seeds sd
Constructed(rg, sd) ==
  /\ m_range = rg
  /\ seed = sd
  /\ m_prime = [g \in Gens |-> CtorPrime(rg[g])]
  /\ m_index = [g \in Gens |-> CtorIndex(rg[g], sd[g])]
  /\ m_intermediateOffset = [g \in Gens |-> CtorOffset(rg[g])]

\* ---- UniqueSeq::next ------------------------------------------------------
\* res = permuteQPR((permuteQPR(m_index)));
Candidate(g, i) == permuteQPR(m_prime[g], permuteQPR(m_prime[g], i))

\* the index assignment without the increment: m_index=m_index%m_prime;
AdvanceIndexStuck(g, i) == i % m_prime[g]

\* m_index=(m_index+1)%m_prime;
AdvanceIndex(g, i) == ((i + 1) % UIntModulus) % m_prime[g]

\* the loop test against the modulus instead of the range: while(res>m_prime);
RejectedAbovePrime(g, r) == r > m_prime[g]

\* } while(res>m_range);
Rejected(g, r) == r > m_range[g]

\* cur = generator.next();  (chooseSmart keeps the returned values)
Record(g, r) ==
  IF Len(outs[g]) < MaxRecord THEN [outs EXCEPT ![g] = Append(@, r)] ELSE outs

\* a context enters next()
Call(t) ==
  /\ pc[t] = "idle"
  /\ pc' = [pc EXCEPT ![t] = "loop"]
  /\ UNCHANGED <<m_index, m_intermediateOffset, m_prime, m_range, seed, obj,
                 res, idx, outs, x, img>>

\* one pass of the do-while body, run without interference
Iterate(t) ==
  LET g == obj[t]
      i == m_index[g]
      r == Candidate(g, i)
  IN  /\ pc[t] = "loop"
      /\ idx' = [idx EXCEPT ![t] = i]
      /\ res' = [res EXCEPT ![t] = r]
      /\ m_index' = [m_index EXCEPT ![g] = AdvanceIndex(g, i)]
      /\ IF Rejected(g, r)
           THEN /\ pc' = pc
                /\ outs' = outs
           ELSE /\ pc' = [pc EXCEPT ![t] = "idle"]
                /\ outs' = Record(g, r)
      /\ UNCHANGED <<m_intermediateOffset, m_prime, m_range, seed, obj, x, img>>

\* ---- one generator, one caller (chooseSmart) ------------------------------
Init ==
  /\ \E r \in Ranges, s \in Seeds :
        Constructed([g \in Gens |-> IF g = 1 THEN r ELSE 1],
                    [g \in Gens |-> IF g = 1 THEN s ELSE DefaultSeed])
  /\ obj = [t \in Threads |-> t]
  /\ pc = [t \in Threads |-> IF t = 1 THEN "idle" ELSE "off"]
  /\ res = [t \in Threads |-> NoValue]
  /\ idx = [t \in Threads |-> 0]
  /\ outs = [g \in Gens |-> << >>]
  /\ x = 0
  /\ img = {}

Next == \E t \in Threads : Call(t) \/ Iterate(t)

Spec == Init /\ [][Next]_vars

FairSpec == Spec /\ \A t \in Threads : WF_vars(Iterate(t))

\* ---- permuteQPR probed argument by argument -------------------------------
\* applies permuteQPR to x = 0, 1, 2, ... of the instance's modulus and keeps
\* the images of the arguments below the modulus
Permute ==
  /\ x <= m_prime[1] + MaxExtra
  /\ x < UIntModulus
  /\ res' = [res EXCEPT ![1] = permuteQPR(m_prime[1], x)]
  /\ img' = IF x < m_prime[1] THEN img \cup {permuteQPR(m_prime[1], x)} ELSE img
  /\ x' = x + 1
  /\ UNCHANGED <<m_index, m_intermediateOffset, m_prime, m_range, seed, obj,
                 pc, idx, outs>>

PermInit ==
  /\ \E r \in Ranges :
        Constructed([g \in Gens |-> r], [g \in Gens |-> DefaultSeed])
  /\ obj = [t \in Threads |-> t]
  /\ pc = [t \in Threads |-> "off"]
  /\ res = [t \in Threads |-> NoValue]
  /\ idx = [t \in Threads |-> 0]
  /\ outs = [g \in Gens |-> << >>]
  /\ x = 0
  /\ img = {}

PermNext == Permute

PermSpec == PermInit /\ [][PermNext]_vars

\* ---- chooseSmart: count calls of next(), count = MaxRecord ----------------
Choose(t) ==
  /\ Len(outs[obj[t]]) < MaxRecord
  /\ Call(t)

\* ---- two generators of the same range, one caller each --------------------
PairInit ==
  /\ \E r \in 1 .. MaxPairRange, s1 \in Seeds, s2 \in Seeds :
        Constructed([g \in Gens |-> r],
                    [g \in Gens |-> IF g = 1 THEN s1 ELSE s2])
  /\ obj = [t \in Threads |-> t]
  /\ pc = [t \in Threads |-> "idle"]
  /\ res = [t \in Threads |-> NoValue]
  /\ idx = [t \in Threads |-> 0]
  /\ outs = [g \in Gens |-> << >>]
  /\ x = 0
  /\ img = {}

PairNext == \E t \in Threads : Choose(t) \/ Iterate(t)

PairSpec == PairInit /\ [][PairNext]_vars

\* ---- two execution contexts, next() not atomic ----------------------------
\* res = permuteQPR((permuteQPR(m_index)));   the read of m_index
Load(t) ==
  LET g == obj[t]
  IN  /\ pc[t] = "loop"
      /\ idx' = [idx EXCEPT ![t] = m_index[g]]
      /\ res' = [res EXCEPT ![t] = Candidate(g, m_index[g])]
      /\ pc' = [pc EXCEPT ![t] = "store"]
      /\ UNCHANGED <<m_index, m_intermediateOffset, m_prime, m_range, seed,
                     obj, outs, x, img>>

\* the write of m_index as if the field were static, shared by all instances
StoreStatic(t) ==
  LET g == obj[t]
  IN  /\ pc[t] = "store"
      /\ \E old \in {idx[t], m_index[g]} :
            m_index' = [h \in Gens |-> AdvanceIndex(g, old)]
      /\ IF Rejected(g, res[t])
           THEN /\ pc' = [pc EXCEPT ![t] = "loop"]
                /\ outs' = outs
           ELSE /\ pc' = [pc EXCEPT ![t] = "idle"]
                /\ outs' = Record(g, res[t])
      /\ UNCHANGED <<m_intermediateOffset, m_prime, m_range, seed, obj, res,
                     idx, x, img>>

\* m_index=(m_index+1)%m_prime; } while(res>m_range);   the write of m_index.
\* The unsynchronised access is a data race: the build may add 1 to the value
\* it read for res or to a value it reads again.
Store(t) ==
  LET g == obj[t]
  IN  /\ pc[t] = "store"
      /\ \E old \in {idx[t], m_index[g]} :
            m_index' = [m_index EXCEPT ![g] = AdvanceIndex(g, old)]
      /\ IF Rejected(g, res[t])
           THEN /\ pc' = [pc EXCEPT ![t] = "loop"]
                /\ outs' = outs
           ELSE /\ pc' = [pc EXCEPT ![t] = "idle"]
                /\ outs' = Record(g, res[t])
      /\ UNCHANGED <<m_intermediateOffset, m_prime, m_range, seed, obj, res,
                     idx, x, img>>

RaceInit ==
  /\ \E r \in 1 .. MaxRaceRange, s1 \in 0 .. MaxSeed, s2 \in 0 .. MaxSeed :
        Constructed([g \in Gens |-> r],
                    [g \in Gens |-> IF g = 1 THEN s1 ELSE s2])
  /\ obj \in {[t \in Threads |-> 1], [t \in Threads |-> t]}
  /\ pc = [t \in Threads |-> "idle"]
  /\ res = [t \in Threads |-> NoValue]
  /\ idx = [t \in Threads |-> 0]
  /\ outs = [g \in Gens |-> << >>]
  /\ x = 0
  /\ img = {}

\* each context stops calling once the instance has handed out R+1 values
RaceCall(t) ==
  /\ Len(outs[obj[t]]) <= m_range[obj[t]]
  /\ Call(t)

RaceNext == \E t \in Threads : RaceCall(t) \/ Load(t) \/ Store(t)

RaceSpec == RaceInit /\ [][RaceNext]_vars

\* ===========================================================================
\* Properties
\* ===========================================================================
\* check(): no two of the first n entries of s are equal
Distinct(s, n) == \A i, j \in 1 .. n : i # j => s[i] # s[j]

\* C1: for every range R with 1 <= R <= LargestPrime and every seed, the first
\* R+1 values next() returns are pairwise distinct, each lies in [0, R], and
\* together they are all of [0, R].
C1_BijectiveOverOnePeriod ==
  \A g \in Gens :
    (m_range[g] >= 1 /\ m_range[g] <= LargestPrime) =>
      LET R == m_range[g]
          n == Min2(Len(outs[g]), R + 1)
      IN  /\ Distinct(outs[g], n)
          /\ \A i \in 1 .. n : outs[g][i] \in 0 .. R
          /\ (Len(outs[g]) >= R + 1 => {outs[g][i] : i \in 1 .. (R + 1)} = 0 .. R)

\* C2: for every range R, every seed and every k <= R, the first k values
\* next() returns are pairwise distinct (what check() asserts on the vector
\* chooseSmart fills).
C2_NoDuplicateInPrefix ==
  \A g \in Gens :
    \A k \in 0 .. Min2(Len(outs[g]), m_range[g]) : Distinct(outs[g], k)

\* C3: for 1 <= range <= LargestPrime, with next_prime the smallest prime
\* strictly greater than its argument, the modulus the constructor stores is
\* the smallest prime p >= range with p mod 4 = 3.
C3_SmallestSuitablePrime ==
  \A g \in Gens :
    (m_range[g] >= 1 /\ m_range[g] <= LargestPrime) =>
      /\ IsPrime(m_prime[g])
      /\ m_prime[g] % 4 = 3
      /\ m_prime[g] >= m_range[g]
      /\ \A q \in m_range[g] .. (m_prime[g] - 1) : ~(IsPrime(q) /\ q % 4 = 3)

\* C4: in every state from the one the constructor leaves onwards,
\* m_index < m_prime.
C4_IndexBelowPrime == \A g \in Gens : m_index[g] < m_prime[g]

\* C5: every value next() returns, after any number of earlier calls and for
\* any range and seed, lies in [0, range].
C5_OutputInRange ==
  /\ \A t \in Threads :
       (pc[t] = "idle" /\ res[t] # NoValue) => res[t] \in 0 .. m_range[obj[t]]
  /\ \A g \in Gens : \A i \in 1 .. Len(outs[g]) : outs[g][i] \in 0 .. m_range[g]

\* a later call has returned the bound itself
C5_Witness ==
  /\ pc[1] = "idle"
  /\ res[1] = m_range[1]
  /\ Len(outs[1]) >= 2
  /\ outs[1][Len(outs[1])] = m_range[1]

\* C6: a call of next() that is inside its rejection loop leaves the loop and
\* returns, for every range and seed and after any earlier calls.
C6_NextTerminates == \A t \in Threads : (pc[t] = "loop") ~> (pc[t] = "idle")

\* a later call is inside the loop with a candidate it has just rejected
C6_Witness ==
  /\ pc[1] = "loop"
  /\ Len(outs[1]) >= 1
  /\ res[1] # NoValue
  /\ Rejected(1, res[1])
  /\ idx[1] < m_prime[1]

\* C7: for every range above LargestPrime the constructor stores LargestPrime
\* as modulus and next() never returns a value above LargestPrime.
C7_CapBehaviour ==
  \A g \in Gens :
    m_range[g] > LargestPrime =>
      /\ m_prime[g] = LargestPrime
      /\ \A i \in 1 .. Len(outs[g]) : outs[g][i] <= LargestPrime

\* a step of context t leaves every instance other than its own unchanged
StepLeavesOthersAlone ==
  \A t \in Threads, g \in Gens :
    (pc'[t] # pc[t] /\ g # obj[t]) =>
      /\ m_index'[g] = m_index[g]
      /\ m_prime'[g] = m_prime[g]
      /\ m_range'[g] = m_range[g]
      /\ m_intermediateOffset'[g] = m_intermediateOffset[g]
      /\ outs'[g] = outs[g]

\* contexts on distinct instances: each instance's first R+1 values are distinct
DistinctInstancesUnique ==
  obj[1] # obj[2] =>
    \A g \in Gens : Distinct(outs[g], Min2(Len(outs[g]), m_range[g] + 1))

\* C8: two contexts that call next() on distinct instances never change each
\* other's instance, and each instance keeps handing out distinct values;
\* on a shared instance, with the read of m_index and the write of m_index+1
\* as separate steps, both calls can compute from the same index and return
\* the same number inside one period (C8_Witness is such a state).
C8_NotThreadSafe == [](DistinctInstancesUnique) /\ [][StepLeavesOthersAlone]_vars

\* shared instance: the first two values handed out are equal, computed by the
\* two contexts from the same m_index
C8_Witness ==
  /\ obj[1] = obj[2]
  /\ pc[1] = "idle" /\ pc[2] = "idle"
  /\ res[1] # NoValue /\ res[1] = res[2]
  /\ idx[1] = idx[2]
  /\ Len(outs[1]) = 2
  /\ outs[1][1] = outs[1][2]

\* C9: for every modulus the constructor selects, permuteQPR maps x < prime to
\* x*x mod prime when x <= prime/2 and to prime - (x*x mod prime) otherwise,
\* is one-to-one and onto on [0, prime), and returns x unchanged for x >= prime.
C9_PermuteBijection ==
  x > 0 =>
    LET p == m_prime[1]
        a == x - 1
        v == res[1]
    IN  /\ a < p =>
              /\ v = (IF a <= p \div 2 THEN (a * a) % p ELSE p - ((a * a) % p))
              /\ v \in 0 .. (p - 1)
              /\ Cardinality(img) = x
        /\ a >= p => v = a
        /\ x >= p => img = 0 .. (p - 1)

\* C10: two generators of the same range R (modulus > R) and any two seeds
\* produce streams that are rotations of one another by some d in [0, R], and
\* each stream repeats with period R+1.
C10_SeedOnlyRotates ==
  LET R == m_range[1]
  IN  (m_range[2] = R /\ m_prime[1] > R) =>
        /\ \E d \in 0 .. R :
              \A i \in 1 .. Len(outs[1]) :
                 i + d <= Len(outs[2]) => outs[1][i] = outs[2][i + d]
        /\ \A g \in Gens : \A i \in 1 .. Len(outs[g]) :
              i + R + 1 <= Len(outs[g]) => outs[g][i] = outs[g][i + R + 1]

\* both streams are recorded over three periods, from different seeds that
\* start at different places
C10_Witness ==
  /\ seed[1] # seed[2]
  /\ m_range[1] = m_range[2]
  /\ Len(outs[1]) >= 3 * (m_range[1] + 1)
  /\ Len(outs[2]) >= 3 * (m_range[1] + 1)
  /\ outs[1][1] # outs[2][1]

====
